---- MODULE Spec2Model ----
(***************************************************************************)
(* A model of the caching classes (0x01-caching) and of the pagination     *)
(* servers (0x00-pagination and the top-level copies).                     *)
(*                                                                         *)
(* Python's None is the string "None" where the other values are strings   *)
(* (cache keys and items), and the empty tuple <<>> where they are         *)
(* integers or lists (an optional integer i is <<i>>).                     *)
(***************************************************************************)
EXTENDS Integers, Sequences, FiniteSets, TLC

None == "None"

\* ---------------------------------------------------------------- bounds
\* Largest BaseCaching.MAX_ITEMS an instance is configured with.
MaxCapacity == 3
\* Number of put calls with a non-None key and item that a run makes.
MaxOps == 4
\* Number of put calls of a run that only puts non-None keys and items
\* (SpecCachePuts).
MaxPuts == 5

\* Largest number of data rows in DATA_FILE.
MaxLen == 4
\* Largest page number and page size a caller asks for.
MaxPage == 3
MaxPageSize == 3

\* Number of put calls of a long run over few keys (SpecCacheDeep).
MaxDeepOps == 6

\* Keys and items the callers use.
Keys == {"A", "B", "C", "D"}
Items == {"v1", "v2"}
\* Keys and items of a long run.
DeepKeys == {"A", "B", "C"}
DeepItems == {"v1"}

VARIABLES
  cls,         \* the class of the cache instance: "FIFOCache" or "BasicCache"
  MAX_ITEMS,   \* BaseCaching.MAX_ITEMS
  cache_data,  \* self.cache_data: a dict, here a function on the present keys
  order,       \* FIFOCache.order: a list of keys
  stdout,      \* the lines printed so far, <<"DISCARD: ", key>> each
  call,        \* the last call: [op, key, item]
  ret,         \* what the last call returned, or the exception it raised
  puts,        \* history: the keys of the FIFOCache put calls with non-None
               \* key and item
  fifo         \* history: the keys present in the FIFOCache, oldest insertion
               \* as a new key first

cacheVars == <<cls, MAX_ITEMS, cache_data, order, stdout, call, ret, puts, fifo>>

VARIABLES
  srv,         \* the Server class of the instance (see Servers)
  DATA_FILE,   \* the rows of Popular_Baby_Names.csv, the header row first
  dataset__,   \* self.__dataset: <<>> for None, else <<list of rows>>
  indexed__,   \* self.__indexed_dataset: <<>> for None, else <<dict>>
  resp,        \* the last call of a Server method and its outcome
  trav         \* history: the traversal by next_index that is under way

pageVars == <<srv, DATA_FILE, dataset__, indexed__, resp, trav>>

VARIABLES
  pc,          \* where each thread stands inside dataset() / indexed_dataset()
  loc,         \* each thread's call, its local variable dataset, and the
               \* identity of the object its call returned
  heap,        \* the dict objects built by indexed_dataset(), by identity
  made         \* history: the number of reads of DATA_FILE, and the identity
               \* of the objects in self.__dataset and self.__indexed_dataset

thrVars == <<pc, loc, heap, made>>

vars == <<cacheVars, pageVars, thrVars>>

\* ------------------------------------------------------------- helpers
NoDup(s) == \A i, j \in 1..Len(s) : s[i] = s[j] => i = j

\* dict with key k deleted: del d[k]
DictDel(d, k) == [x \in (DOMAIN d) \ {k} |-> d[x]]

\* dict after d[k] = v
DictSet(d, k, v) == [x \in (DOMAIN d) \cup {k} |-> IF x = k THEN v ELSE d[x]]

EmptyDict == [x \in {} |-> None]

\* The threads that call into one Server instance, and the locals of a
\* thread that is in no call.
Threads == {"t1", "t2"}
NoLocals == [call |-> None, rows |-> <<>>, rows_id |-> 0, ret |-> 0]

\* the subsequence of s of the elements in set S
RECURSIVE Filter(_, _)
Filter(s, S) ==
  IF s = <<>> THEN <<>>
  ELSE IF Head(s) \in S THEN <<Head(s)>> \o Filter(Tail(s), S)
       ELSE Filter(Tail(s), S)

\* -------------------------------------------------------------- caches
\* The values of the class constant BaseCaching.MAX_ITEMS
Capacities == 1..MaxCapacity

\* FIFOCache.__init__ and BasicCache.__init__ (BaseCaching.__init__ sets
\* cache_data to the empty dict); the Server instance is not used while
\* the cache is exercised.
InitCache ==
  /\ cls \in {"FIFOCache", "BasicCache"}
  /\ MAX_ITEMS \in Capacities
  /\ cache_data = EmptyDict
  /\ order = <<>>
  /\ stdout = <<>>
  /\ call = [op |-> "init", key |-> None, item |-> None]
  /\ ret = None
  /\ puts = <<>>
  /\ fifo = <<>>
  /\ pc = [t \in Threads |-> "idle"]
  /\ loc = [t \in Threads |-> NoLocals]
  /\ heap = <<>>
  /\ made = [reads |-> 0, dataset_id |-> 0, index_id |-> 0]
  /\ srv = None
  /\ DATA_FILE = <<>>
  /\ dataset__ = <<>>
  /\ indexed__ = <<>>
  /\ resp = [op |-> "init"]
  /\ trav = [st |-> "idle"]

\* The history variables after a call that leaves cache_data' behind.
History(key, item) ==
  /\ puts' = IF key = None \/ item = None THEN puts ELSE Append(puts, key)
  /\ fifo' = LET kept == Filter(fifo, DOMAIN cache_data')
             IN IF key \in (DOMAIN cache_data') \ (DOMAIN cache_data)
                THEN Append(kept, key) ELSE kept

\* A put that evicts nothing.
FIFOCache_put_noevict(key, item) ==
  IF key = None \/ item = None
  THEN /\ ret' = None
       /\ UNCHANGED <<cache_data, order, stdout>>
  ELSE /\ order' = Append(order, key)
       /\ cache_data' = DictSet(cache_data, key, item)
       /\ ret' = None
       /\ UNCHANGED stdout

\* A put that evicts the newest key instead of the oldest.
FIFOCache_put_lifo(key, item) ==
  IF key = None \/ item = None
  THEN /\ ret' = None
       /\ UNCHANGED <<cache_data, order, stdout>>
  ELSE LET length == Cardinality(DOMAIN cache_data)
           last == order[Len(order)]
       IN IF length >= MAX_ITEMS /\ key \notin DOMAIN cache_data
          THEN IF last \notin DOMAIN cache_data
               THEN /\ stdout' = Append(stdout, <<"DISCARD: ", last>>)
                    /\ ret' = "KeyError"
                    /\ UNCHANGED <<cache_data, order>>
               ELSE /\ stdout' = Append(stdout, <<"DISCARD: ", last>>)
                    /\ cache_data' = DictSet(DictDel(cache_data, last), key, item)
                    /\ order' = Append(SubSeq(order, 1, Len(order) - 1), key)
                    /\ ret' = None
          ELSE /\ order' = Append(order, key)
               /\ cache_data' = DictSet(cache_data, key, item)
               /\ ret' = None
               /\ UNCHANGED stdout

\* A put whose overwrite of a present key moves the key to the end of order.
FIFOCache_put_refresh(key, item) ==
  IF key = None \/ item = None
  THEN /\ ret' = None
       /\ UNCHANGED <<cache_data, order, stdout>>
  ELSE LET length == Cardinality(DOMAIN cache_data)
       IN IF length >= MAX_ITEMS /\ key \notin DOMAIN cache_data
          THEN /\ stdout' = Append(stdout, <<"DISCARD: ", order[1]>>)
               /\ cache_data' = DictSet(DictDel(cache_data, order[1]), key, item)
               /\ order' = Append(Tail(order), key)
               /\ ret' = None
          ELSE /\ order' = Append(Filter(order, (DOMAIN cache_data) \ {key}), key)
               /\ cache_data' = DictSet(cache_data, key, item)
               /\ ret' = None
               /\ UNCHANGED stdout

\* A put that tests only the key for None.
FIFOCache_put_nonecheck(key, item) ==
  IF key = None
  THEN /\ ret' = None
       /\ UNCHANGED <<cache_data, order, stdout>>
  ELSE /\ order' = Append(order, key)
       /\ cache_data' = DictSet(cache_data, key, item)
       /\ ret' = None
       /\ UNCHANGED stdout

\* FIFOCache.put(key, item)
FIFOCache_put(key, item) ==
  IF key = None \/ item = None
  THEN /\ ret' = None
       /\ UNCHANGED <<cache_data, order, stdout>>
  ELSE LET length == Cardinality(DOMAIN cache_data)
       IN IF length >= MAX_ITEMS /\ key \notin DOMAIN cache_data
          THEN IF order = <<>>
               THEN \* self.order[0] of an empty list, before anything is printed
                    /\ ret' = "IndexError"
                    /\ UNCHANGED <<cache_data, order, stdout>>
               ELSE IF order[1] \notin DOMAIN cache_data
               THEN \* the line is printed, then del self.cache_data[...] raises
                    /\ stdout' = Append(stdout, <<"DISCARD: ", order[1]>>)
                    /\ ret' = "KeyError"
                    /\ UNCHANGED <<cache_data, order>>
               ELSE /\ stdout' = Append(stdout, <<"DISCARD: ", order[1]>>)
                    /\ cache_data' = DictSet(DictDel(cache_data, order[1]), key, item)
                    /\ order' = Append(Tail(order), key)
                    /\ ret' = None
          ELSE /\ order' = Append(order, key)
               /\ cache_data' = DictSet(cache_data, key, item)
               /\ ret' = None
               /\ UNCHANGED stdout

\* BasicCache.put(key, item)
BasicCache_put(key, item) ==
  IF key = None \/ item = None
  THEN /\ ret' = None
       /\ UNCHANGED <<cache_data, order, stdout>>
  ELSE /\ cache_data' = DictSet(cache_data, key, item)
       /\ ret' = None
       /\ UNCHANGED <<order, stdout>>

\* A get that refreshes the key's place in the order (an LRU-style get).
Cache_get_touch(key) ==
  IF key # None /\ key \in DOMAIN cache_data
  THEN /\ ret' = cache_data[key]
       /\ order' = Append(order, key)
       /\ UNCHANGED <<cache_data, stdout>>
  ELSE /\ ret' = None
       /\ UNCHANGED <<cache_data, order, stdout>>

\* FIFOCache.get(key) and BasicCache.get(key): the same code
Cache_get(key) ==
  /\ ret' = IF key # None /\ key \in DOMAIN cache_data
            THEN cache_data[key] ELSE None
  /\ UNCHANGED <<cache_data, order, stdout>>

\* The call put(key, item) on the instance.
PutCall(key, item) ==
  /\ call' = [op |-> "put", key |-> key, item |-> item]
  /\ IF cls = "FIFOCache"
     THEN FIFOCache_put(key, item) /\ History(key, item)
     ELSE BasicCache_put(key, item) /\ UNCHANGED <<puts, fifo>>
  /\ UNCHANGED <<cls, MAX_ITEMS>>
  /\ UNCHANGED pageVars
  /\ UNCHANGED thrVars

\* A caller calls put(key, item) on the instance.
Put ==
  \E key \in Keys \cup {None}, item \in Items \cup {None} :
    /\ (key # None /\ item # None) => Len(puts) < MaxOps
    /\ PutCall(key, item)

\* A caller that passes no None calls put(key, item) on the instance.
PutPair ==
  \E key \in Keys, item \in Items :
    /\ Len(puts) < MaxPuts
    /\ PutCall(key, item)

\* A caller of a long run calls put(key, item) on the instance.
PutDeep ==
  \E key \in DeepKeys, item \in DeepItems :
    /\ Len(puts) < MaxDeepOps
    /\ PutCall(key, item)

\* A caller calls get(key) on the instance.
Get ==
  \E key \in Keys \cup {None} :
    /\ call' = [op |-> "get", key |-> key, item |-> None]
    /\ Cache_get(key)
    /\ UNCHANGED <<cls, MAX_ITEMS, puts, fifo>>
    /\ UNCHANGED pageVars
    /\ UNCHANGED thrVars

NextCache == Put \/ Get

SpecCache == InitCache /\ [][NextCache]_vars

NextCachePuts == PutPair

SpecCachePuts == InitCache /\ [][NextCachePuts]_vars

NextCacheDeep == PutDeep \/ Get

SpecCacheDeep == InitCache /\ [][NextCacheDeep]_vars

\* ------------------------------------------------------- cache claims
IsFifo == cls = "FIFOCache"

Size == Cardinality(DOMAIN cache_data)

Discard(k) == <<"DISCARD: ", k>>

\* C1: in every state a FIFOCache reaches by put and get calls, cache_data
\* holds at most MAX_ITEMS entries.
C1_CapacityBound == IsFifo => Size <= MAX_ITEMS

\* A full FIFOCache that has evicted and then took one more new key.
C1_Witness ==
  /\ IsFifo /\ Size = MAX_ITEMS /\ Len(stdout) >= 2
  /\ call.op = "put" /\ ret = None

\* C2: after puts of n > MAX_ITEMS pairwise distinct keys k1..kn into an
\* empty FIFOCache, the cache holds exactly the last MAX_ITEMS keys and the
\* i-th eviction removed (and announced) ki.
C2_DistinctKeysFifo ==
  (IsFifo /\ NoDup(puts) /\ Len(puts) > MAX_ITEMS) =>
    /\ DOMAIN cache_data =
         {puts[i] : i \in (Len(puts) - MAX_ITEMS + 1)..Len(puts)}
    /\ stdout = [i \in 1..(Len(puts) - MAX_ITEMS) |-> Discard(puts[i])]

\* Two more distinct keys than the capacity have been put.
C2_Witness ==
  /\ IsFifo /\ NoDup(puts) /\ Len(puts) = MAX_ITEMS + 2 /\ MAX_ITEMS = 2
  /\ call.op = "put" /\ call.key = puts[Len(puts)]

\* C3: whenever a FIFOCache put removes a key, that key is the present key
\* whose latest insertion as a new key is the oldest (the head of fifo).
C3_VictimIsOldest ==
  [][IsFifo =>
       \A k \in (DOMAIN cache_data) \ (DOMAIN cache_data') : k = Head(fifo)]_vars

\* The puts A, B, C, A, D of claim C4, for any four distinct keys, into a
\* cache of capacity 3.
C4_Scenario ==
  /\ IsFifo /\ MAX_ITEMS = 3 /\ Len(puts) = 5
  /\ puts[4] = puts[1]
  /\ NoDup(<<puts[1], puts[2], puts[3], puts[5]>>)
  /\ call.op = "put" /\ call.key = puts[5]

\* C4 as amended: after put A, B, C, an overwriting put A and put D with
\* capacity 3, the evicted key is A (the oldest insertion), and B is still
\* present.
C4_OverwriteKeepsOrder ==
  C4_Scenario =>
    /\ stdout = <<Discard(puts[1])>>
    /\ DOMAIN cache_data = {puts[2], puts[3], puts[5]}
    /\ ret = None

C4_Witness == C4_Scenario /\ cache_data[puts[5]] = "v2"

\* C4 as written: after put A, B, C, an overwriting put A and put D with
\* capacity 3, the evicted key is B and A is still present.
C4_Original ==
  C4_Scenario =>
    /\ stdout = <<Discard(puts[2])>>
    /\ puts[1] \in DOMAIN cache_data

\* C5: a FIFOCache put with a non-None key and a non-None item raises no
\* error.
C5_PutNeverRaises ==
  (IsFifo /\ call.op = "put" /\ call.key # None /\ call.item # None) =>
    ret = None

\* C6: put(None, v) and put(k, None) raise nothing and leave cache_data,
\* the order list and the printed lines as they were, in a FIFOCache and in
\* a BasicCache.
C6_NonePutIsNoOp ==
  [][(call'.op = "put" /\ (call'.key = None \/ call'.item = None)) =>
       (ret' = None /\ UNCHANGED <<cache_data, order, stdout>>)]_vars

\* A put with a None argument was made on a cache that holds entries.
C6_Witness ==
  /\ call.op = "put" /\ call.key # None /\ call.item = None
  /\ Size >= 2 /\ call.key \notin DOMAIN cache_data

\* C7: get(key) returns the value stored under key, None when key is None
\* or not present, and leaves cache_data and the order list as they were.
C7_GetIsPure ==
  [][call'.op = "get" =>
       /\ UNCHANGED <<cache_data, order, stdout>>
       /\ call'.key \in DOMAIN cache_data => ret' = cache_data[call'.key]
       /\ call'.key \notin DOMAIN cache_data => ret' = None]_vars

\* A get found its key in a full FIFOCache.
C7_Witness ==
  /\ IsFifo /\ Size = MAX_ITEMS /\ MAX_ITEMS >= 2
  /\ call.op = "get" /\ call.key \in DOMAIN cache_data /\ ret = "v2"

\* ---------------------------------------------------------- pagination
\* The pagination modules: 0x00-pagination/0-simple_helper_function.py (a
\* function only), 0x00-pagination/1-simple_pagination.py,
\* 1-simple_pagination.py (its text ends inside Server.get_page),
\* 0x00-pagination/2-hypermedia_pagination.py, 2-hypermedia_pagination.py
\* and 0x00-pagination/3-hypermedia_del_pagination.py
Servers ==
  {"helper", "simple_0x00", "simple_top", "hyper_0x00", "hyper_top", "hyper_del"}

\* The data row at 0-based position p; rows are pairwise distinct.
Row(p) == <<"row", p>>
Pos(row) == row[2]

\* A CSV file of n data rows under a header row.
File(n) == <<(<<"header">>)>> \o [i \in 1..n |-> Row(i - 1)]

\* The page numbers and page sizes the callers pass.
Pages == -1..MaxPage
PageSizes == -1..MaxPageSize

\* Python's s[start:end] for 0 <= start, 0 <= end
PySlice(s, start, end) ==
  LET lo == IF start > Len(s) THEN Len(s) ELSE start
      hi == IF end > Len(s) THEN Len(s) ELSE end
  IN IF hi <= lo THEN <<>> ELSE SubSeq(s, lo + 1, hi)

\* Server.__init__, on a DATA_FILE of up to MaxLen data rows; the cache
\* instance is not used while a Server is exercised.
InitPages ==
  /\ srv \in Servers
  /\ DATA_FILE \in {File(n) : n \in 0..MaxLen}
  /\ dataset__ = <<>>
  /\ indexed__ = <<>>
  /\ resp = [op |-> "init"]
  /\ trav = [st |-> "idle"]
  /\ cls = None
  /\ MAX_ITEMS = 0
  /\ cache_data = EmptyDict
  /\ order = <<>>
  /\ stdout = <<>>
  /\ call = [op |-> "init", key |-> None, item |-> None]
  /\ ret = None
  /\ puts = <<>>
  /\ fifo = <<>>
  /\ pc = [t \in Threads |-> "idle"]
  /\ loc = [t \in Threads |-> NoLocals]
  /\ heap = <<>>
  /\ made = [reads |-> 0, dataset_id |-> 0, index_id |-> 0]

\* Server.dataset(): the value of self.__dataset when it returns
dataset ==
  IF dataset__ = <<>> THEN <<Tail(DATA_FILE)>> ELSE dataset__

\* indexed_dataset() with the guard "if not self.__indexed_dataset": an
\* emptied index is built again.
indexed_dataset_falsy ==
  IF indexed__ = <<>> \/ indexed__ = <<EmptyDict>>
  THEN LET d == dataset[1]
       IN <<[i \in 0..(Len(d) - 1) |-> d[i + 1]]>>
  ELSE indexed__

\* Server.indexed_dataset(): the value of self.__indexed_dataset when it returns
indexed_dataset ==
  IF indexed__ = <<>>
  THEN LET d == dataset[1]
       IN <<[i \in 0..(Len(d) - 1) |-> d[i + 1]]>>
  ELSE indexed__

\* index_range of 0x00-pagination/2-hypermedia_pagination.py
index_range(page, page_size) ==
  <<(page - 1) * page_size, page * page_size>>

\* index_range of 0x00-pagination/1-simple_pagination.py
index_range_simple(page, page_size) ==
  LET start_index == (page - 1) * page_size
      end_index == start_index + page_size
  IN <<start_index, end_index>>

\* The loop with its two statements in the other order:
\* "end += page_size; start = end".
RECURSIVE index_range_loop_swapped(_, _, _, _)
index_range_loop_swapped(i, start, end, page_size) ==
  IF i <= 0 THEN <<start, end>>
  ELSE index_range_loop_swapped(i - 1, end + page_size, end + page_size,
                                page_size)

\* index_range of 0x00-pagination/0-simple_helper_function.py: the loop
\* "for i in range(page): start = end; end += page_size" from (0, 0)
RECURSIVE index_range_loop(_, _, _, _)
index_range_loop(i, start, end, page_size) ==
  IF i <= 0 THEN <<start, end>>
  ELSE index_range_loop(i - 1, end, end + page_size, page_size)

index_range_helper(page, page_size) == index_range_loop(page, 0, 0, page_size)

\* index_range of 1-simple_pagination.py: the same loop, over start_index
\* and end_index
index_range_simple_top(page, page_size) ==
  LET start_index == 0
      end_index == 0
  IN index_range_loop(page, start_index, end_index, page_size)

\* get_page of 0x00-pagination/1-simple_pagination.py slicing one row too far.
get_page_simple_inclusive(page, page_size) ==
  IF ~(page > 0) \/ ~(page_size > 0)
  THEN [raised |-> "AssertionError", ret |-> <<>>, loaded |-> FALSE]
  ELSE LET d == dataset[1]
           r == index_range_simple(page, page_size)
       IN IF r[1] >= Len(d)
          THEN [raised |-> None, ret |-> <<>>, loaded |-> TRUE]
          ELSE [raised |-> None, ret |-> PySlice(d, r[1], r[2] + 1),
                loaded |-> TRUE]

\* Server.get_page of 0x00-pagination/1-simple_pagination.py
get_page_simple(page, page_size) ==
  IF ~(page > 0) \/ ~(page_size > 0)
  THEN [raised |-> "AssertionError", ret |-> <<>>, loaded |-> FALSE]
  ELSE LET d == dataset[1]
           r == index_range_simple(page, page_size)
       IN IF r[1] >= Len(d)
          THEN [raised |-> None, ret |-> <<>>, loaded |-> TRUE]
          ELSE [raised |-> None, ret |-> PySlice(d, r[1], r[2]), loaded |-> TRUE]


\* A get_page that raises IndexError past the end of the data, as the
\* docstring of 2-hypermedia_pagination.py announces.
get_page_0x00_raising(page, page_size) ==
  IF ~(page > 0) \/ ~(page_size > 0)
  THEN [raised |-> "AssertionError", ret |-> <<>>, loaded |-> FALSE]
  ELSE LET r == index_range(page, page_size)
           d == dataset[1]
       IN IF r[1] >= Len(d)
          THEN [raised |-> "IndexError", ret |-> <<>>, loaded |-> TRUE]
          ELSE [raised |-> None, ret |-> PySlice(d, r[1], r[2]), loaded |-> TRUE]

\* Server.get_page of 0x00-pagination/2-hypermedia_pagination.py
get_page_0x00(page, page_size) ==
  IF ~(page > 0) \/ ~(page_size > 0)
  THEN [raised |-> "AssertionError", ret |-> <<>>, loaded |-> FALSE]
  ELSE LET r == index_range(page, page_size)
           d == dataset[1]
       IN IF r[1] >= Len(d)
          THEN [raised |-> None, ret |-> <<>>, loaded |-> TRUE]
          ELSE [raised |-> None, ret |-> PySlice(d, r[1], r[2]), loaded |-> TRUE]

\* Server.get_page of 2-hypermedia_pagination.py; the slice raises no
\* IndexError, so the except branch is never taken
get_page_top(page, page_size) ==
  IF ~(page > 0) \/ ~(page_size > 0)
  THEN [raised |-> "AssertionError", ret |-> <<>>, loaded |-> FALSE]
  ELSE LET d == dataset[1]
           r == index_range_helper(page, page_size)
       IN [raised |-> None, ret |-> PySlice(d, r[1], r[2]), loaded |-> TRUE]

\* math.ceil(a / b) for a >= 0 and b > 0; the float quotient is exact enough
\* for the ceiling to be the integer one at these sizes
math_ceil_div(a, b) == (a + b - 1) \div b

\* Server.get_hyper of 0x00-pagination/2-hypermedia_pagination.py: get_page
\* is called first, and its AssertionError ends the call
get_hyper_0x00(page, page_size) ==
  LET p == get_page_0x00(page, page_size)
  IN IF p.raised # None
     THEN [raised |-> p.raised, ret |-> <<>>, loaded |-> p.loaded]
     ELSE LET len == Len(dataset[1])
          IN [raised |-> None,
              loaded |-> TRUE,
              ret |-> [page_size |-> Len(p.ret),
                       page |-> page,
                       data |-> p.ret,
                       next_page |-> IF page * page_size < len
                                     THEN <<page + 1>> ELSE <<>>,
                       prev_page |-> IF page > 1 THEN <<page - 1>> ELSE <<>>,
                       total_pages |-> math_ceil_div(len, page_size)]]

\* Server.get_hyper of 2-hypermedia_pagination.py: total_pages is computed
\* from self.dataset() first (page_size 0 raises ZeroDivisionError there),
\* then get_page is called
get_hyper_top(page, page_size) ==
  IF page_size = 0
  THEN [raised |-> "ZeroDivisionError", ret |-> <<>>, loaded |-> TRUE]
  ELSE LET p == get_page_top(page, page_size)
       IN IF p.raised # None
          THEN [raised |-> p.raised, ret |-> <<>>, loaded |-> TRUE]
          ELSE LET total_pages == (Len(dataset[1]) \div page_size) + 1
               IN [raised |-> None,
                   loaded |-> TRUE,
                   ret |-> [page |-> page,
                            page_size |-> IF page_size <= Len(p.ret)
                                          THEN page_size ELSE Len(p.ret),
                            total_pages |-> total_pages,
                            data |-> p.ret,
                            prev_page |-> IF page > 1 THEN <<page - 1>> ELSE <<>>,
                            next_page |-> IF page + 1 <= total_pages
                                          THEN <<page + 1>> ELSE <<>>]]

\* The while loop of get_hyper_index, from (data, current_index)
RECURSIVE hyper_walk(_, _, _, _)
hyper_walk(indexed_data, data, current_index, page_size) ==
  IF Len(data) < page_size
     /\ current_index < Cardinality(DOMAIN indexed_data)
  THEN hyper_walk(indexed_data,
                  IF current_index \in DOMAIN indexed_data
                  THEN Append(data, indexed_data[current_index])
                  ELSE data,
                  current_index + 1, page_size)
  ELSE [data |-> data, current_index |-> current_index]

\* get_hyper_index that reports its cursor as next_index also when the
\* walk has reached the end of the index.
get_hyper_index_open(index, page_size) ==
  LET indexed_data == indexed_dataset[1]
      start == IF index # <<>> THEN index[1] ELSE 0
      w == hyper_walk(indexed_data, <<>>, start, page_size)
  IN [index |-> index,
      next_index |-> <<w.current_index>>,
      page_size |-> Len(w.data),
      data |-> w.data,
      cursor |-> w.current_index]

\* Server.get_hyper_index(index, page_size); cursor is current_index when
\* the loop ends
get_hyper_index(index, page_size) ==
  LET indexed_data == indexed_dataset[1]
      start == IF index # <<>> THEN index[1] ELSE 0
      w == hyper_walk(indexed_data, <<>>, start, page_size)
      next_index == IF w.current_index < Cardinality(DOMAIN indexed_data)
                    THEN <<w.current_index>> ELSE <<>>
  IN [index |-> index,
      next_index |-> next_index,
      page_size |-> Len(w.data),
      data |-> w.data,
      cursor |-> w.current_index]

\* A caller calls index_range(page, page_size) of the module.
IndexRange ==
  /\ srv # "hyper_del"
  /\ \E page \in Pages, page_size \in PageSizes :
       resp' = [op |-> "index_range", page |-> page, page_size |-> page_size,
                ret |-> CASE srv = "helper" ->
                               index_range_helper(page, page_size)
                          [] srv = "simple_0x00" ->
                               index_range_simple(page, page_size)
                          [] srv = "simple_top" ->
                               index_range_simple_top(page, page_size)
                          [] srv = "hyper_0x00" ->
                               index_range(page, page_size)
                          [] OTHER ->
                               index_range_helper(page, page_size)]
  /\ UNCHANGED <<srv, DATA_FILE, dataset__, indexed__, trav>>
  /\ UNCHANGED cacheVars
  /\ UNCHANGED thrVars

\* A caller calls dataset().
Dataset ==
  /\ srv # "helper"
  /\ dataset__' = dataset
  /\ resp' = [op |-> "dataset"]
  /\ UNCHANGED <<srv, DATA_FILE, indexed__, trav>>
  /\ UNCHANGED cacheVars
  /\ UNCHANGED thrVars

\* A caller calls indexed_dataset().
IndexedDataset ==
  /\ srv = "hyper_del"
  /\ indexed__' = indexed_dataset
  /\ dataset__' = IF indexed__ = <<>> THEN dataset ELSE dataset__
  /\ resp' = [op |-> "indexed_dataset"]
  /\ UNCHANGED <<srv, DATA_FILE, trav>>
  /\ UNCHANGED cacheVars
  /\ UNCHANGED thrVars

\* A caller deletes position p from the dict indexed_dataset() gave it:
\* del indexed_data[p]
DeleteIndex ==
  /\ srv = "hyper_del"
  /\ indexed__ # <<>>
  /\ \E p \in DOMAIN indexed__[1] :
       indexed__' = <<[x \in (DOMAIN indexed__[1]) \ {p} |-> indexed__[1][x]]>>
  /\ UNCHANGED <<srv, DATA_FILE, dataset__, resp, trav>>
  /\ UNCHANGED cacheVars
  /\ UNCHANGED thrVars

\* The paging history after get_page(page, page_size) gave r: a call for
\* page 1 starts a run of pages, a call for the next page with the same
\* page_size continues it, any other call abandons it.
PageWalk(page, page_size, r) ==
  IF r.raised = None /\ page = 1
  THEN [st |-> "paging", N |-> page_size, page |-> 1,
        seen |-> r.ret, last |-> r.ret]
  ELSE IF /\ r.raised = None /\ trav.st = "paging"
          /\ page_size = trav.N /\ page = trav.page + 1
  THEN [st |-> "paging", N |-> page_size, page |-> page,
        seen |-> trav.seen \o r.ret, last |-> r.ret]
  ELSE [st |-> "idle"]

\* A caller calls get_page(page, page_size).
GetPage ==
  /\ srv \in {"simple_0x00", "hyper_0x00", "hyper_top"}
  /\ \E page \in Pages, page_size \in PageSizes :
       LET r == CASE srv = "simple_0x00" -> get_page_simple(page, page_size)
                  [] srv = "hyper_0x00" -> get_page_0x00(page, page_size)
                  [] OTHER -> get_page_top(page, page_size)
       IN /\ resp' = [op |-> "get_page", page |-> page,
                      page_size |-> page_size,
                      raised |-> r.raised, ret |-> r.ret]
          /\ dataset__' = IF r.loaded THEN dataset ELSE dataset__
          /\ trav' = PageWalk(page, page_size, r)
  /\ UNCHANGED <<srv, DATA_FILE, indexed__>>
  /\ UNCHANGED cacheVars
  /\ UNCHANGED thrVars

\* A caller calls get_hyper(page, page_size).
GetHyper ==
  /\ srv \in {"hyper_0x00", "hyper_top"}
  /\ \E page \in Pages, page_size \in PageSizes :
       LET r == IF srv = "hyper_0x00" THEN get_hyper_0x00(page, page_size)
                                      ELSE get_hyper_top(page, page_size)
       IN /\ resp' = [op |-> "get_hyper", page |-> page,
                      page_size |-> page_size,
                      raised |-> r.raised, ret |-> r.ret]
          /\ dataset__' = IF r.loaded THEN dataset ELSE dataset__
  /\ UNCHANGED <<srv, DATA_FILE, indexed__, trav>>
  /\ UNCHANGED cacheVars
  /\ UNCHANGED thrVars

\* The traversal history after get_hyper_index(index, page_size) gave r:
\* a call from index 0 starts a traversal, a call from the next_index of
\* the traversal's last page continues it, any other call abandons it.
Traverse(index, page_size, r) ==
  LET live == DOMAIN indexed_dataset[1]
      start == IF index # <<>> THEN index[1] ELSE 0
      passed == {p \in live : start <= p /\ p < r.cursor}
      st == IF r.next_index = <<>> THEN "done" ELSE "running"
  IN IF page_size >= 1 /\ index = <<0>>
     THEN [st |-> st, seen |-> r.data, passed |-> passed, cursor |-> r.cursor]
     ELSE IF page_size >= 1 /\ trav.st = "running" /\ index = <<trav.cursor>>
     THEN [st |-> st, seen |-> trav.seen \o r.data,
           passed |-> trav.passed \cup passed, cursor |-> r.cursor]
     ELSE [st |-> "idle"]

\* A caller calls get_hyper_index(index, page_size).
GetHyperIndex ==
  /\ srv = "hyper_del"
  /\ \E index \in {<<>>} \cup {<<i>> : i \in 0..(MaxLen + 1)},
        page_size \in PageSizes :
       LET r == get_hyper_index(index, page_size)
       IN /\ resp' = [op |-> "get_hyper_index", req_index |-> index,
                      req_size |-> page_size, raised |-> None,
                      ret |-> [index |-> r.index, next_index |-> r.next_index,
                               page_size |-> r.page_size, data |-> r.data]]
          /\ trav' = Traverse(index, page_size, r)
  /\ indexed__' = indexed_dataset
  /\ dataset__' = IF indexed__ = <<>> THEN dataset ELSE dataset__
  /\ UNCHANGED <<srv, DATA_FILE>>
  /\ UNCHANGED cacheVars
  /\ UNCHANGED thrVars

NextPages ==
  \/ IndexRange
  \/ Dataset
  \/ IndexedDataset
  \/ DeleteIndex
  \/ GetPage
  \/ GetHyper
  \/ GetHyperIndex

SpecPages == InitPages /\ [][NextPages]_vars

\* The size the module docstring gives for the index: "limited to the first
\* 1000 entries by default".
SnapshotBound == 1000

\* A Server of 0x00-pagination/3-hypermedia_del_pagination.py on a short
\* DATA_FILE or on one of SnapshotBound + 1 data rows, whose index is used
\* as built.
InitSnapshot ==
  /\ srv = "hyper_del"
  /\ DATA_FILE \in {File(n) : n \in (0..MaxLen) \cup {SnapshotBound + 1}}
  /\ dataset__ = <<>>
  /\ indexed__ = <<>>
  /\ resp = [op |-> "init"]
  /\ trav = [st |-> "idle"]
  /\ cls = None
  /\ MAX_ITEMS = 0
  /\ cache_data = EmptyDict
  /\ order = <<>>
  /\ stdout = <<>>
  /\ call = [op |-> "init", key |-> None, item |-> None]
  /\ ret = None
  /\ puts = <<>>
  /\ fifo = <<>>
  /\ pc = [t \in Threads |-> "idle"]
  /\ loc = [t \in Threads |-> NoLocals]
  /\ heap = <<>>
  /\ made = [reads |-> 0, dataset_id |-> 0, index_id |-> 0]

NextSnapshot ==
  \/ Dataset
  \/ IndexedDataset
  \/ GetHyperIndex

SpecSnapshot == InitSnapshot /\ [][NextSnapshot]_vars

\* ----------------------------------------------------------- two threads
\* Two threads call dataset() and indexed_dataset() of one Server of
\* 0x00-pagination/3-hypermedia_del_pagination.py; the methods hold no
\* lock, so the threads interleave between the statements.
InitThreads ==
  /\ srv = "hyper_del"
  /\ DATA_FILE \in {File(n) : n \in 0..MaxLen}
  /\ dataset__ = <<>>
  /\ indexed__ = <<>>
  /\ resp = [op |-> "init"]
  /\ trav = [st |-> "idle"]
  /\ pc = [t \in Threads |-> "idle"]
  /\ loc = [t \in Threads |-> NoLocals]
  /\ heap = <<>>
  /\ made = [reads |-> 0, dataset_id |-> 0, index_id |-> 0]
  /\ cls = None
  /\ MAX_ITEMS = 0
  /\ cache_data = EmptyDict
  /\ order = <<>>
  /\ stdout = <<>>
  /\ call = [op |-> "init", key |-> None, item |-> None]
  /\ ret = None
  /\ puts = <<>>
  /\ fifo = <<>>

\* A thread that is in no call calls dataset() or indexed_dataset().
ThreadCall ==
  /\ \E t \in Threads, c \in {"dataset", "indexed_dataset"} :
       /\ pc[t] \in {"idle", "done"}
       /\ loc' = [loc EXCEPT ![t] = [NoLocals EXCEPT !.call = c]]
       /\ pc' = [pc EXCEPT ![t] = IF c = "dataset" THEN "dataset_test"
                                                  ELSE "index_test"]
  /\ UNCHANGED <<heap, made>>
  /\ UNCHANGED pageVars
  /\ UNCHANGED cacheVars

\* dataset(): if self.__dataset is None
DatasetTest ==
  /\ \E t \in Threads :
       /\ pc[t] = "dataset_test"
       /\ pc' = [pc EXCEPT ![t] = IF dataset__ = <<>> THEN "dataset_read"
                                                     ELSE "dataset_return"]
  /\ UNCHANGED <<loc, heap, made>>
  /\ UNCHANGED pageVars
  /\ UNCHANGED cacheVars

\* dataset(): with open(self.DATA_FILE) as f: ... dataset = [row for row in
\* reader]
DatasetRead ==
  /\ \E t \in Threads :
       /\ pc[t] = "dataset_read"
       /\ loc' = [loc EXCEPT ![t].rows = <<DATA_FILE>>,
                             ![t].rows_id = made.reads + 1]
       /\ pc' = [pc EXCEPT ![t] = "dataset_assign"]
  /\ made' = [made EXCEPT !.reads = made.reads + 1]
  /\ UNCHANGED heap
  /\ UNCHANGED pageVars
  /\ UNCHANGED cacheVars

\* dataset(): self.__dataset = dataset[1:]
DatasetAssign ==
  /\ \E t \in Threads :
       /\ pc[t] = "dataset_assign"
       /\ dataset__' = <<Tail(loc[t].rows[1])>>
       /\ made' = [made EXCEPT !.dataset_id = loc[t].rows_id]
       /\ pc' = [pc EXCEPT ![t] = "dataset_return"]
  /\ UNCHANGED <<loc, heap>>
  /\ UNCHANGED <<srv, DATA_FILE, indexed__, resp, trav>>
  /\ UNCHANGED cacheVars

\* dataset(): return self.__dataset, to the caller or to indexed_dataset()
DatasetReturn ==
  /\ \E t \in Threads :
       /\ pc[t] = "dataset_return"
       /\ IF loc[t].call = "dataset"
          THEN /\ loc' = [loc EXCEPT ![t].ret = made.dataset_id]
               /\ pc' = [pc EXCEPT ![t] = "done"]
          ELSE /\ loc' = [loc EXCEPT ![t].rows = dataset__,
                                    ![t].rows_id = made.dataset_id]
               /\ pc' = [pc EXCEPT ![t] = "index_assign"]
  /\ UNCHANGED <<heap, made>>
  /\ UNCHANGED pageVars
  /\ UNCHANGED cacheVars

\* indexed_dataset(): if self.__indexed_dataset is None, and the call of
\* self.dataset() when it is
IndexTest ==
  /\ \E t \in Threads :
       /\ pc[t] = "index_test"
       /\ pc' = [pc EXCEPT ![t] = IF indexed__ = <<>> THEN "dataset_test"
                                                     ELSE "index_return"]
  /\ UNCHANGED <<loc, heap, made>>
  /\ UNCHANGED pageVars
  /\ UNCHANGED cacheVars

\* indexed_dataset(): self.__indexed_dataset = {i: dataset[i] for i in
\* range(len(dataset))}, a new dict object
IndexAssign ==
  /\ \E t \in Threads :
       /\ pc[t] = "index_assign"
       /\ LET d == loc[t].rows[1]
              new == [i \in 0..(Len(d) - 1) |-> d[i + 1]]
          IN /\ heap' = Append(heap, new)
             /\ indexed__' = <<new>>
       /\ made' = [made EXCEPT !.index_id = Len(heap) + 1]
       /\ pc' = [pc EXCEPT ![t] = "index_return"]
  /\ UNCHANGED loc
  /\ UNCHANGED <<srv, DATA_FILE, dataset__, resp, trav>>
  /\ UNCHANGED cacheVars

\* indexed_dataset(): return self.__indexed_dataset
IndexReturn ==
  /\ \E t \in Threads :
       /\ pc[t] = "index_return"
       /\ loc' = [loc EXCEPT ![t].ret = made.index_id]
       /\ pc' = [pc EXCEPT ![t] = "done"]
  /\ UNCHANGED <<heap, made>>
  /\ UNCHANGED pageVars
  /\ UNCHANGED cacheVars

\* A thread deletes position p from the dict its indexed_dataset() call
\* returned: del indexed_data[p]
ThreadDelete ==
  /\ \E t \in Threads :
       /\ pc[t] = "done"
       /\ loc[t].call = "indexed_dataset"
       /\ \E p \in DOMAIN heap[loc[t].ret] :
            /\ heap' = [heap EXCEPT ![loc[t].ret] = DictDel(@, p)]
            /\ indexed__' = IF loc[t].ret = made.index_id
                            THEN <<DictDel(heap[loc[t].ret], p)>>
                            ELSE indexed__
  /\ UNCHANGED <<pc, loc, made>>
  /\ UNCHANGED <<srv, DATA_FILE, dataset__, resp, trav>>
  /\ UNCHANGED cacheVars

NextThreads ==
  \/ ThreadCall
  \/ DatasetTest
  \/ DatasetRead
  \/ DatasetAssign
  \/ DatasetReturn
  \/ IndexTest
  \/ IndexAssign
  \/ IndexReturn
  \/ ThreadDelete

SpecThreads == InitThreads /\ [][NextThreads]_vars

\* --------------------------------------------------- pagination claims
\* The number of data rows the snapshot is taken of.
L == Len(DATA_FILE) - 1

IsDel == srv = "hyper_del"

\* The positions still in the index.
Live == DOMAIN indexed__[1]

\* The elements of a finite set of integers in ascending order.
RECURSIVE Ascending(_)
Ascending(S) ==
  IF S = {} THEN <<>>
  ELSE LET m == CHOOSE x \in S : \A y \in S : x <= y
       IN <<m>> \o Ascending(S \ {m})

\* The first n live records at positions >= index, in position order (all
\* of them when there are fewer than n).
FirstLive(index, n) ==
  LET ps == Ascending({p \in Live : p >= index})
      k == IF Len(ps) < n THEN Len(ps) ELSE n
  IN [i \in 1..k |-> Row(ps[i])]

\* C8: whatever positions have been removed from the index, for every
\* 0 <= index < L and page_size >= 1, the data of get_hyper_index(index,
\* page_size) are the first min(page_size, m) live records at positions
\* >= index, m being the number of live positions >= index.
C8_PageIsFirstLive ==
  (IsDel /\ indexed__ # <<>>) =>
    \A index \in 0..(L - 1), page_size \in 1..MaxPageSize :
      get_hyper_index(<<index>>, page_size).data = FirstLive(index, page_size)

\* C9: a traversal from index 0 along next_index, with deletions between
\* the calls, returns records in strictly increasing position order, returns
\* every record that was live when the cursor passed it, and ends
\* (next_index None) only when no live record is left at or after the cursor.
C9_TraversalComplete ==
  (IsDel /\ trav.st \in {"running", "done"}) =>
    /\ \A i, j \in 1..Len(trav.seen) :
         i < j => Pos(trav.seen[i]) < Pos(trav.seen[j])
    /\ trav.passed \subseteq {Pos(trav.seen[i]) : i \in 1..Len(trav.seen)}
    /\ trav.st = "done" => \A p \in Live : p < trav.cursor

C10_WitnessTop ==
  /\ srv = "hyper_top" /\ resp.op = "get_page" /\ L >= 2
  /\ (resp.page - 1) * resp.page_size = L /\ resp.ret = <<>>

C10_WitnessDel ==
  /\ IsDel /\ resp.op = "get_hyper_index" /\ L >= 2 /\ Live # {}
  /\ resp.ret.index = <<L>> /\ resp.req_size >= 1 /\ resp.ret.data = <<>>

\* C11: a get_page or get_hyper call with page <= 0 or page_size <= 0 raises
\* AssertionError and leaves the server as it was: a dataset that was not
\* loaded before the call is not loaded after it.
C11_InvalidArgsFailFirst ==
  [][(/\ resp'.op \in {"get_page", "get_hyper"}
      /\ (resp'.page <= 0 \/ resp'.page_size <= 0)) =>
       (resp'.raised = "AssertionError" /\ dataset__' = dataset__)]_vars

\* C12: get_hyper_index called with page_size <= 0 raises an argument
\* validation error, whatever the index.
C12_HyperIndexRejectsPageSize ==
  (resp.op = "get_hyper_index" /\ resp.req_size <= 0) =>
    resp.raised = "AssertionError"

\* The least n with n * b >= a, for a >= 0 and b >= 1: ceil(a / b).
CeilDiv(a, b) == CHOOSE n \in 0..a : n * b >= a /\ (n - 1) * b < a

\* C13: for all page >= 1 and page_size >= 1, index_range(page, page_size)
\* returns ((page - 1) * page_size, page * page_size), in the loop-based
\* implementations as in the closed-form ones.
C13_IndexRangeClosedForm ==
  (resp.op = "index_range" /\ resp.page >= 1 /\ resp.page_size >= 1) =>
    resp.ret = <<(resp.page - 1) * resp.page_size, resp.page * resp.page_size>>

\* The loop of 0-simple_helper_function.py has run three times.
C13_Witness ==
  /\ srv = "helper" /\ resp.op = "index_range"
  /\ resp.page = 3 /\ resp.page_size = 2 /\ resp.ret = <<4, 6>>

\* The same for the loop of 1-simple_pagination.py and for the closed form
\* of 0x00-pagination/1-simple_pagination.py.
C13_WitnessTop ==
  /\ srv = "simple_top" /\ resp.op = "index_range"
  /\ resp.page = 3 /\ resp.page_size = 2 /\ resp.ret = <<4, 6>>

C13_WitnessSimple ==
  /\ srv = "simple_0x00" /\ resp.op = "index_range"
  /\ resp.page = 3 /\ resp.page_size = 2 /\ resp.ret = <<4, 6>>

\* C14: for page_size >= 1 and a dataset of L rows, the total_pages of a
\* get_hyper response is ceil(L / page_size), also when L is a multiple of
\* page_size and when L = 0.
C14_TotalPagesIsCeil ==
  (resp.op = "get_hyper" /\ resp.raised = None) =>
    resp.ret.total_pages = CeilDiv(L, resp.page_size)

\* C15: for L >= 1 and 1 <= page <= ceil(L / page_size), the next_page of a
\* get_hyper response is None exactly when page is the last page and page + 1
\* otherwise, and its prev_page is None exactly when page is 1 and page - 1
\* otherwise.
C15_NeighbourPages ==
  (/\ resp.op = "get_hyper" /\ resp.raised = None /\ L >= 1
   /\ resp.page <= CeilDiv(L, resp.page_size)) =>
    /\ resp.ret.next_page =
         (IF resp.page = CeilDiv(L, resp.page_size)
          THEN <<>> ELSE <<resp.page + 1>>)
    /\ resp.ret.prev_page =
         (IF resp.page = 1 THEN <<>> ELSE <<resp.page - 1>>)

\* The prev_page half of C15 alone.
C15_PrevPage ==
  (resp.op = "get_hyper" /\ resp.raised = None) =>
    resp.ret.prev_page = (IF resp.page = 1 THEN <<>> ELSE <<resp.page - 1>>)

C16_WitnessHyper ==
  /\ srv = "hyper_0x00" /\ trav.st = "paging" /\ L >= 3 /\ trav.N = 2
  /\ trav.page = CeilDiv(L, 2) /\ trav.seen = Tail(DATA_FILE)

C16_WitnessTop ==
  /\ srv = "hyper_top" /\ trav.st = "paging" /\ L >= 3 /\ trav.N = 2
  /\ trav.page = CeilDiv(L, 2) /\ trav.seen = Tail(DATA_FILE)

C16_WitnessPast ==
  /\ trav.st = "paging" /\ L >= 3 /\ trav.N = 2
  /\ trav.page = CeilDiv(L, 2) + 1 /\ trav.last = <<>>

\* C17: over FIFOCache.put calls, DISCARD lines and removals correspond
\* one to one: a put prints a DISCARD line if and only if it removes an
\* entry, it removes at most one, the key printed is the key removed, and
\* this happens only when the put brings a key that was not present into a
\* cache holding MAX_ITEMS entries.
C17_DiscardIffRemoval ==
  [][(IsFifo /\ call'.op = "put") =>
       LET removed == (DOMAIN cache_data) \ (DOMAIN cache_data')
           printed == Len(stdout') - Len(stdout)
       IN /\ printed \in {0, 1}
          /\ Cardinality(removed) <= 1
          /\ printed = 1 <=> removed # {}
          /\ printed = 1 =>
               /\ removed = {stdout'[Len(stdout')][2]}
               /\ call'.key \notin DOMAIN cache_data
               /\ Size = MAX_ITEMS]_vars

\* C18: once indexed_dataset() has built the index, it holds at most
\* SnapshotBound entries, the positions 0 .. min(L, SnapshotBound) - 1, for
\* every dataset length L, also one greater than SnapshotBound.
C18_SnapshotIsBounded ==
  (IsDel /\ indexed__ # <<>>) =>
    LET n == IF L < SnapshotBound THEN L ELSE SnapshotBound
    IN /\ Cardinality(DOMAIN indexed__[1]) <= SnapshotBound
       /\ DOMAIN indexed__[1] = 0..(n - 1)

\* The part of C18 for datasets within SnapshotBound.
C18_ShortDatasetIndexedWhole ==
  (IsDel /\ indexed__ # <<>> /\ L <= SnapshotBound) =>
    DOMAIN indexed__[1] = 0..(L - 1)

\* C19: once the index is built it is never built again: every step leaves
\* it built, adds no position to it, and keeps at each remaining position
\* the record the dataset held there when the index was built; this holds
\* after every position has been deleted too.
C19_SnapshotNeverRebuilt ==
  [][(IsDel /\ indexed__ # <<>>) =>
       /\ indexed__' # <<>>
       /\ DOMAIN indexed__'[1] \subseteq DOMAIN indexed__[1]
       /\ \A p \in DOMAIN indexed__'[1] :
            indexed__'[1][p] = dataset__[1][p + 1]]_vars

\* get_hyper_index was called on an index whose every position had been
\* deleted, and it stayed empty.
C19_Witness ==
  /\ IsDel /\ L >= 2 /\ indexed__ = <<EmptyDict>>
  /\ resp.op = "get_hyper_index" /\ resp.ret.index = <<0>>
  /\ resp.ret.data = <<>> /\ resp.ret.next_index = <<>>
  /\ trav.st = "done" /\ trav.seen = <<>>

\* C20: the index of a get_hyper_index response is the start position the
\* call used: the requested index when one was given, 0 when it was None.
C20_IndexIsStartUsed ==
  resp.op = "get_hyper_index" =>
    resp.ret.index = (IF resp.req_index = <<>> THEN <<0>> ELSE resp.req_index)

\* C21: in every state a FIFOCache reaches by put and get calls, order and
\* cache_data describe the same entries: order holds no key twice, the keys
\* of order are the keys of cache_data, and so len(order) = len(cache_data)
\* <= MAX_ITEMS.
C21_OrderMatchesCache ==
  IsFifo =>
    /\ NoDup(order)
    /\ {order[i] : i \in 1..Len(order)} = DOMAIN cache_data
    /\ Len(order) = Size
    /\ Size <= MAX_ITEMS

\* C22: while no position has been deleted from the index, for 0 <= index < L
\* and page_size >= 1, get_hyper_index(index, page_size) returns as data the
\* slice dataset[index : index + page_size], as page_size the length of that
\* slice, and as next_index index + page_size if that is below L, else None.
C22_AgreesWithSlicing ==
  (/\ IsDel /\ resp.op = "get_hyper_index" /\ Live = 0..(L - 1)
   /\ resp.req_index # <<>> /\ resp.req_index[1] < L /\ resp.req_size >= 1) =>
    LET index == resp.req_index[1]
        slice == PySlice(Tail(DATA_FILE), index, index + resp.req_size)
    IN /\ resp.ret.data = slice
       /\ resp.ret.page_size = Len(slice)
       /\ resp.ret.next_index =
            (IF index + resp.req_size < L
             THEN <<index + resp.req_size>> ELSE <<>>)

\* An undeleted index was read from the middle to a page that ends inside
\* the data, and one that is cut short by the end of the data.
C22_Witness ==
  /\ IsDel /\ resp.op = "get_hyper_index" /\ Live = 0..(L - 1) /\ L >= 4
  /\ resp.req_index = <<1>> /\ resp.req_size = 2
  /\ resp.ret.data = <<Row(1), Row(2)>> /\ resp.ret.next_index = <<3>>

C22_WitnessEnd ==
  /\ IsDel /\ resp.op = "get_hyper_index" /\ Live = 0..(L - 1) /\ L = 3
  /\ resp.req_index = <<2>> /\ resp.req_size = 2
  /\ resp.ret.data = <<Row(2)>> /\ resp.ret.next_index = <<>>

\* C23: self.__dataset and self.__indexed_dataset are initialised once on
\* first use, also when the first calls of two threads interleave:
\* DATA_FILE is read at most once, the index is built at most once, the
\* callers of one method are returned the same object, and the dict a
\* caller was returned is the one the Server holds, so that what the caller
\* deletes from it is deleted for all.
C23_InitialisedOnce ==
  /\ made.reads <= 1
  /\ Len(heap) <= 1
  /\ \A t, u \in Threads :
       (pc[t] = "done" /\ pc[u] = "done" /\ loc[t].call = loc[u].call) =>
         loc[t].ret = loc[u].ret
  /\ \A t \in Threads :
       (pc[t] = "done" /\ loc[t].call = "indexed_dataset") =>
         (loc[t].ret = made.index_id /\ indexed__ = <<heap[loc[t].ret]>>)

\* The part of C23 for calls that follow one another: in the runs of one
\* caller a loaded dataset is never replaced.
C23_SequentialOnce ==
  [][dataset__ # <<>> => dataset__' = dataset__]_vars

====
